---------------------------- MODULE Spec2Model ----------------------------
(***************************************************************************)
(* Model of src/video/include/ait/video/GstreamerPipeline.h:               *)
(*   SPSCFixedQueue      the bounded output queue (queue_, mutex_,         *)
(*                       discard_everything_)                             *)
(*   AppSrcSinkQueue     pushData / newSampleCallback and the pending      *)
(*                       side-queue user_data_queue_                       *)
(*   GstreamerPipeline   initialize / start / stop / pushInput /           *)
(*                       popOutput, the watchdog and gstreamerLoop         *)
(*                                                                         *)
(* Threads: the caller (initialize, start, stop, pushInput), the           *)
(* pipeline's streaming thread (newAppsinkSampleCallback), the consumer    *)
(* (popOutput) and the message thread (gstreamerLoop).  The GStreamer      *)
(* pipeline is the environment: the set of buffers it holds (inflight),    *)
(* its state (gst_state) and its bus.                                      *)
(***************************************************************************)
EXTENDS Integers, Sequences, FiniteSets, TLC

----------------------------------------------------------------------------
(* Bounds of the model *)

\* accepted frames per run of the model: frame_counter_ stays below it
MaxFrames == 4
\* the same under SpecWatchdog, where the clock and the lifecycle run too
MaxWatchdogFrames == 3
\* max_output_queue_size, the constructor's argument (default 5)
MaxOutputQueueSize == 2
\* max_input_queue_size, the constructor's argument (default 3)
MaxInputQueueSize == 2
\* number of buffers the appsrc holds before a blocking push waits
\* ("block" = TRUE, "max-bytes" = 5000000 at initialize)
IngestCap == 2
\* MAX_USER_DATA_QUEUE_SIZE, 100 in the source, scaled down so that the
\* eviction of pushData happens within MaxFrames
MAX_USER_DATA_QUEUE_SIZE == 3
\* calls of start() and stop() by the application
MaxLifecycleCalls == 2
\* status messages the pipeline posts by itself (errors, end of stream)
MaxBusEvents == 1
\* times initialize() gets as far as making the appsrc and the appsink
MaxPortSets == 2
\* frames the application submits in SpecEgress: enough for the fail
\* counter to reach CORRESPONDENCE_FAIL_REPORT_RATE and one more
MaxEgressFrames == 6
\* buffers the appsrc holds before gst_app_src_push_buffer blocks when the
\* frames are small: more than MAX_USER_DATA_QUEUE_SIZE
SmallFrameCap == 4
\* GstBufferWrapper objects and GstBuffers that exist at the same time
MaxHandles == 2
MaxBuffers == 2

(* Program constants *)
FRAME_DROP_REPORT_RATE == 10
CORRESPONDENCE_FAIL_REPORT_RATE == 5
WATCHDOG_RESET_COUNT == 10
\* seconds; one Tick of the model is one second
WATCHDOG_TIMEOUT == 2

UserData == {"a", "b"}
DiscardModes == {"DISCARD_INPUT_FRAMES", "DISCARD_OUTPUT_FRAMES"}
\* the value newSampleCallback uses for "no correspondence meta"
NoId == -1

Handles == 1..MaxHandles
Buffers == 1..MaxBuffers
\* a GstBufferWrapper that is not constructed (or is destroyed)
NoWrapper == [live |-> FALSE, ptr_ |-> 0, mapped_ |-> FALSE,
              mapped_writable_ |-> FALSE, owns_buffer_ |-> FALSE]
\* a GstBuffer that is not allocated; mode: "none" | "read" | "write" is the
\* mapping GStreamer holds on it
FreshBuffer == [mode |-> "none", alive |-> FALSE]

----------------------------------------------------------------------------
VARIABLES
  \* ---- SPSCFixedQueue
  queue_,                       \* std::deque<T>: <<[id, offset, ud]>>
  discard_everything_,          \* std::atomic<bool>
  \* ---- AppSrcSinkQueue
  discard_mode_,
  user_data_queue_,             \* <<[offset, ud]>>
  src_overflow_counter_,
  sink_overflow_counter_,
  correspondence_fail_counter_,
  \* ---- GstreamerPipeline
  pipeline_,                    \* FALSE: nullptr
  pipeline_state,               \* the mirrored GstState
  appsrc_,                      \* 0: nullptr; k: the k-th appsrc made
  appsink_,                     \* 0: nullptr; k: the k-th appsink made
  \* ---- GstBufferWrapper
  wrappers,                     \* handle -> [live, ptr_, mapped_,
                                \*            mapped_writable_, owns_buffer_]
  native,                       \* GstBuffer -> [map, freed]
  frame_counter_,
  watchdog_counter_,
  delivering_appsink_sample_,
  elapsed,                      \* now - last_appsink_sample_time_, capped
  terminate_,
  message_thread_,              \* "none" | "check" | "poll" | "exited"
  \* ---- the external pipeline
  gst_state,                    \* "NULL" | "PLAYING"
  inflight,                     \* ids of the buffers inside the pipeline
  bus,                          \* messages not yet popped
  \* ---- positions of the threads
  pc_caller,                    \* position of the caller thread
  cstack,                       \* what the caller returns to
  call_ud,                      \* user_data of the pushInput in progress
  pc_sink,                      \* position of newAppsinkSampleCallback
  cb,                           \* the sample / output tuple it holds
  \* ---- history, for the properties only
  fault,                        \* "none", or the exception / undefined
                                \* behaviour that ended the program
  submitted,                    \* <<[id, ud]>> of the accepted pushInput
  popped,                       \* what popOutput returned, in order
  last_ret,                     \* what the last call of the caller returned
  hist                          \* record of flags and counters, see Init

ports == <<appsrc_, appsink_>>
frameBuffers == <<wrappers, native>>

codeVars == <<queue_, discard_everything_, discard_mode_, frameBuffers, user_data_queue_,
              src_overflow_counter_, sink_overflow_counter_,
              correspondence_fail_counter_, pipeline_, pipeline_state, ports,
              frame_counter_, watchdog_counter_, delivering_appsink_sample_,
              elapsed, terminate_, message_thread_>>
envVars == <<gst_state, inflight, bus>>
pcVars == <<pc_caller, cstack, call_ud, pc_sink, cb>>
histVars == <<fault, submitted, popped, last_ret, hist>>
vars == <<codeVars, envVars, pcVars, histVars>>

----------------------------------------------------------------------------
(* Helpers *)

Min(S) == CHOOSE x \in S : \A y \in S : x <= y

Range(s) == {s[i] : i \in 1..Len(s)}

NoSample == [id |-> NoId, offset |-> NoId, ud |-> "none"]


----------------------------------------------------------------------------
(* SPSCFixedQueue *)

\* queue_.size() >= max_queue_size_, the test of both branches of pushBack
QueueFull(q) == Len(q) >= MaxOutputQueueSize

\* a wait that drain mode does not end
PushBackMayProceedIgnoringDrain(q, discard) == Len(q) < MaxOutputQueueSize

\* the predicate a blocking pushBack waits for
PushBackMayProceed(q, discard) == ~QueueFull(q) \/ discard

\* a counter that is never reset
BumpCounterWithoutReset(c, rate) == c + 1

\* a counter that is reported and reset when it reaches rate
BumpCounter(c, rate) == IF c + 1 >= rate THEN 0 ELSE c + 1

----------------------------------------------------------------------------
(* AppSrcSinkQueue::pushData *)

\* an admission test that lets one entry more in
AdmitInputOneMore(mode, udq) ==
  ~(mode = "DISCARD_INPUT_FRAMES" /\ Len(udq) > MaxInputQueueSize)

\* the admission test under DISCARD_INPUT_FRAMES
AdmitInput(mode, udq) ==
  ~(mode = "DISCARD_INPUT_FRAMES" /\ Len(udq) >= MaxInputQueueSize)

\* a user data queue without the safety bound
UserDataQueueNeverFull(udq) == FALSE

\* whether the accepted buffer finds the user data queue at its safety bound
UserDataQueueFull(udq) == Len(udq) >= MAX_USER_DATA_QUEUE_SIZE

\* a user data queue that takes the new entry at its front
AppendUserDataAtFront(udq, offset, ud) ==
  <<[offset |-> offset, ud |-> ud]>> \o udq

\* the user data queue after an accepted gst_app_src_push_buffer
AppendUserData(udq, offset, ud) ==
  Append(IF UserDataQueueFull(udq) THEN Tail(udq) ELSE udq,
         [offset |-> offset, ud |-> ud])

----------------------------------------------------------------------------
(* AppSrcSinkQueue::newSampleCallback, the matching loop                   *)
(*   do { tuple = front; pop_front; if (id < offset) throw; }              *)
(*   while (id > offset);                                                  *)
(* kind: "match": tuple is the entry whose offset is id                    *)
(*       "throw": id is smaller than the offset of the entry popped last   *)
(*       "empty": the loop reads front() of the emptied deque              *)
(* rest: the queue the loop leaves                                         *)

\* a loop without the throw: it ends on the first entry whose offset is not
\* smaller than id
RECURSIVE MatchLoopWithoutThrow(_, _)
MatchLoopWithoutThrow(udq, id) ==
  IF udq = <<>>
    THEN [kind |-> "empty", rest |-> <<>>, tuple |-> [offset |-> NoId, ud |-> "none"]]
    ELSE LET tuple == Head(udq) IN
         IF id > tuple.offset
           THEN MatchLoopWithoutThrow(Tail(udq), id)
           ELSE [kind |-> "match", rest |-> Tail(udq), tuple |-> tuple]

\* a single pass of the loop body: the front entry is taken whatever its
\* offset, unless it is greater than id
MatchFrontOnly(udq, id) ==
  IF udq = <<>>
    THEN [kind |-> "empty", rest |-> <<>>, tuple |-> [offset |-> NoId, ud |-> "none"]]
    ELSE [kind |-> IF id < Head(udq).offset THEN "throw" ELSE "match",
          rest |-> Tail(udq), tuple |-> Head(udq)]

RECURSIVE MatchLoop(_, _)
MatchLoop(udq, id) ==
  IF udq = <<>>
    THEN [kind |-> "empty", rest |-> <<>>, tuple |-> [offset |-> NoId, ud |-> "none"]]
    ELSE LET tuple == Head(udq) IN
         IF id < tuple.offset
           THEN [kind |-> "throw", rest |-> Tail(udq), tuple |-> tuple]
           ELSE IF id > tuple.offset
                  THEN MatchLoop(Tail(udq), id)
                  ELSE [kind |-> "match", rest |-> Tail(udq), tuple |-> tuple]

\* the output tuple: the copied result buffer, stamped with the entry's
\* offset, and the entry's user data
OutputTuple(id, tuple) == [id |-> id, offset |-> tuple.offset, ud |-> tuple.ud]

\* a callback that always asks pushBack to block
BlockingOutputAlways(mode) == TRUE

\* bool block = discard_mode_ != DISCARD_OUTPUT_FRAMES
BlockingOutput(mode) == mode # "DISCARD_OUTPUT_FRAMES"

----------------------------------------------------------------------------
(* GstreamerPipeline::pushInput, the watchdog *)

WatchdogStalled(delivering, el) == ~delivering /\ el >= WATCHDOG_TIMEOUT

WatchdogFires(count) == count >= WATCHDOG_RESET_COUNT

\* message_thread_.joinable()
Joinable(thread) == thread # "none"

\* an appsrc that takes the buffer in every state
IngestAcceptsAlways(state) == TRUE

\* gst_app_src_push_buffer: GST_FLOW_OK only while the pipeline runs
IngestAccepts(state) == state = "PLAYING"

\* "block" = TRUE: the push waits while the appsrc is full
IngestBlocks(state, held) == state = "PLAYING" /\ Cardinality(held) >= IngestCap

\* the same for buffers of a size of which the appsrc (max-bytes) holds cap
IngestBlocksAt(state, held, cap) == state = "PLAYING" /\ Cardinality(held) >= cap

----------------------------------------------------------------------------
Init ==
  /\ queue_ = <<>>
  /\ discard_everything_ = FALSE
  /\ discard_mode_ \in DiscardModes
  /\ user_data_queue_ = <<>>
  /\ src_overflow_counter_ = 0
  /\ sink_overflow_counter_ = 0
  /\ correspondence_fail_counter_ = 0
  /\ pipeline_ = FALSE
  /\ pipeline_state = "NULL"
  /\ appsrc_ = 0
  /\ appsink_ = 0
  /\ wrappers = [h \in Handles |-> NoWrapper]
  /\ native = [b \in Buffers |-> FreshBuffer]
  /\ frame_counter_ = 0
  /\ watchdog_counter_ = 0
  /\ delivering_appsink_sample_ = FALSE
  \* last_appsink_sample_time_ is the epoch until start() sets it
  /\ elapsed = WATCHDOG_TIMEOUT
  /\ terminate_ = FALSE
  /\ message_thread_ = "none"
  /\ gst_state = "NULL"
  /\ inflight = {}
  /\ bus = <<>>
  /\ pc_caller = "idle"
  /\ cstack = <<>>
  /\ call_ud = "none"
  /\ pc_sink = "idle"
  /\ cb = NoSample
  /\ fault = "none"
  /\ submitted = <<>>
  /\ popped = <<>>
  /\ last_ret = "none"
  /\ hist = [ lifecycle |-> 0,      \* start() and stop() called by the application
              bus_events |-> 0,     \* errors and end-of-stream posted
              stops |-> 0,          \* stop() run by the pushInput in progress or last
              starts |-> 0,         \* start() run by it
              restarted |-> FALSE,  \* the watchdog has restarted the pipeline
              found_blocked |-> FALSE,  \* the last stop() of the application
                                    \* found the callback waiting on a full queue
              error_seen |-> FALSE, \* gstreamerLoop has handled an error message
                                    \* since the application last called start()
                                    \* or stop()
              stalled_run |-> 0,    \* consecutive pushInput, since start() and the
                                    \* last delivery, that found none within the
                                    \* timeout
              quiet |-> WATCHDOG_TIMEOUT,  \* seconds since the last delivery or start()
              delivered |-> FALSE,  \* a delivery has happened
              in_order |-> TRUE,    \* every result so far was the oldest buffer in flight
              out_full |-> FALSE,   \* a matched result found the output queue full
              skipped |-> {},       \* offsets of the entries the matching loop skipped
              inserted |-> <<>>,    \* ids of the tuples pushed into queue_, in order
              dropped |-> {} ]      \* ids of the matched results not published

Running == fault = "none"


----------------------------------------------------------------------------
(* The caller thread: initialize, start, stop *)

\* a test that never finds the pipeline initialized
NeverInitialized(pipeline) == FALSE

\* if (pipeline_ != nullptr) throw "Pipeline was already initialized"
AlreadyInitialized(pipeline) == pipeline

\* initialize(): throws when called twice; otherwise makes the appsrc and
\* the appsink and has createPipeline build the pipeline
Initialize ==
  /\ Running /\ pc_caller = "idle"
  /\ IF AlreadyInitialized(pipeline_)
       THEN /\ last_ret' = "already_initialized"
            /\ UNCHANGED <<pipeline_, ports>>
       ELSE /\ appsrc_ < MaxPortSets
            /\ appsrc_' = appsrc_ + 1
            /\ appsink_' = appsink_ + 1
            /\ pipeline_' = TRUE
            /\ last_ret' = "void"
  /\ UNCHANGED <<queue_, discard_everything_, discard_mode_, frameBuffers, user_data_queue_,
                 src_overflow_counter_, sink_overflow_counter_,
                 correspondence_fail_counter_, pipeline_state, frame_counter_,
                 watchdog_counter_, delivering_appsink_sample_, elapsed,
                 terminate_, message_thread_>>
  /\ UNCHANGED <<envVars, pcVars, fault, submitted, popped, hist>>

\* initialize() when createPipeline throws: the elements are made,
\* pipeline_ stays nullptr
InitializeFails ==
  /\ Running /\ pc_caller = "idle"
  /\ ~AlreadyInitialized(pipeline_)
  /\ appsrc_ + 1 < MaxPortSets
  /\ appsrc_' = appsrc_ + 1
  /\ appsink_' = appsink_ + 1
  /\ last_ret' = "factory_error"
  /\ UNCHANGED <<queue_, discard_everything_, discard_mode_, frameBuffers, user_data_queue_,
                 src_overflow_counter_, sink_overflow_counter_,
                 correspondence_fail_counter_, pipeline_, pipeline_state,
                 frame_counter_, watchdog_counter_, delivering_appsink_sample_,
                 elapsed, terminate_, message_thread_>>
  /\ UNCHANGED <<envVars, pcVars, fault, submitted, popped, hist>>

\* ensureInitialized() of start, stop and pushInput before initialize()
UseBeforeInitialize ==
  /\ Running /\ pc_caller = "idle" /\ ~pipeline_
  /\ last_ret # "not_initialized"
  /\ last_ret' = "not_initialized"
  /\ UNCHANGED <<codeVars, envVars, pcVars, fault, submitted, popped, hist>>

\* the caller is inside the stop(); start(); of the watchdog
InWatchdog ==
  cstack # <<>> /\ cstack[Len(cstack)] \in {"wd_start", "wd_ret"}

\* the first two statements of stop()
StopEnter(stack) ==
  /\ discard_everything_' = TRUE
  /\ terminate_' = TRUE
  /\ pc_caller' = "stop_setstate"
  /\ cstack' = stack

\* the caller returns from stop() or start() to the place cstack names
Return ==
  LET top == Head(cstack) IN
  /\ pc_caller' = CASE top = "start_body" -> "start_body"
                    [] top = "wd_start" -> "start_enter"
                    [] OTHER -> "idle"
  /\ cstack' = IF top = "wd_start" THEN <<"wd_ret">> ELSE Tail(cstack)
  /\ last_ret' = CASE top = "ret" -> "void"
                   [] top = "wd_ret" -> "false"
                   [] OTHER -> last_ret

\* the application calls stop()
StopCall ==
  /\ Running /\ pc_caller = "idle" /\ pipeline_
  /\ hist.lifecycle < MaxLifecycleCalls
  /\ StopEnter(<<"ret">>)
  /\ hist' = [hist EXCEPT !.lifecycle = @ + 1, !.error_seen = FALSE,
                          !.found_blocked =
                             pc_sink = "pb_loop" /\ QueueFull(queue_)]
  /\ UNCHANGED <<queue_, discard_mode_, frameBuffers, user_data_queue_,
                 src_overflow_counter_, sink_overflow_counter_,
                 correspondence_fail_counter_, pipeline_, pipeline_state, ports,
                 frame_counter_, watchdog_counter_, delivering_appsink_sample_,
                 elapsed, message_thread_>>
  /\ UNCHANGED <<envVars, call_ud, pc_sink, cb, fault, submitted, popped, last_ret>>

\* gst_element_set_state(pipeline_, GST_STATE_NULL): returns when the
\* streaming thread has left the callback; the pipeline drops what it holds
\* and its bus is flushed
StopSetState ==
  /\ Running /\ pc_caller = "stop_setstate"
  /\ pc_sink = "idle"
  /\ gst_state' = "NULL"
  /\ inflight' = {}
  /\ bus' = <<>>
  /\ pc_caller' = "stop_join"
  /\ hist' = [hist EXCEPT !.in_order = @ /\ inflight = {}]
  /\ UNCHANGED <<codeVars, cstack, call_ud, pc_sink, cb, fault, submitted,
                 popped, last_ret>>

\* if (message_thread_.joinable()) message_thread_.join();
StopJoin ==
  /\ Running /\ pc_caller = "stop_join"
  /\ message_thread_ \in {"none", "exited"}
  /\ message_thread_' = "none"
  /\ Return
  /\ hist' = [hist EXCEPT !.stops = IF InWatchdog THEN @ + 1 ELSE @]
  /\ UNCHANGED <<queue_, discard_everything_, discard_mode_, frameBuffers, user_data_queue_,
                 src_overflow_counter_, sink_overflow_counter_,
                 correspondence_fail_counter_, pipeline_, pipeline_state, ports,
                 frame_counter_, watchdog_counter_, delivering_appsink_sample_,
                 elapsed, terminate_>>
  /\ UNCHANGED <<envVars, call_ud, pc_sink, cb, fault, submitted, popped>>

\* the application calls start()
StartCall ==
  /\ Running /\ pc_caller = "idle" /\ pipeline_
  /\ hist.lifecycle < MaxLifecycleCalls
  /\ pc_caller' = "start_enter"
  /\ cstack' = <<"ret">>
  /\ hist' = [hist EXCEPT !.lifecycle = @ + 1, !.error_seen = FALSE]
  /\ UNCHANGED <<codeVars, envVars, call_ud, pc_sink, cb, fault, submitted,
                 popped, last_ret>>

\* the application calls start() on a pipeline that is not running
StartOnce ==
  /\ ~Joinable(message_thread_)
  /\ StartCall

\* start(): appsrcsink_queue_.clear(), which is SPSCFixedQueue::clear()
StartEnter ==
  /\ Running /\ pc_caller = "start_enter"
  /\ queue_' = <<>>
  /\ pc_caller' = "start_joinable"
  /\ UNCHANGED <<discard_everything_, discard_mode_, frameBuffers, user_data_queue_,
                 src_overflow_counter_, sink_overflow_counter_,
                 correspondence_fail_counter_, pipeline_, pipeline_state, ports,
                 frame_counter_, watchdog_counter_, delivering_appsink_sample_,
                 elapsed, terminate_, message_thread_>>
  /\ UNCHANGED <<envVars, cstack, call_ud, pc_sink, cb, histVars>>

\* start(): if (message_thread_.joinable()) stop();
StartJoinable ==
  /\ Running /\ pc_caller = "start_joinable"
  /\ IF Joinable(message_thread_)
       THEN StopEnter(<<"start_body">> \o cstack)
       ELSE /\ pc_caller' = "start_body"
            /\ UNCHANGED <<cstack, discard_everything_, terminate_>>
  /\ UNCHANGED <<queue_, discard_mode_, frameBuffers, user_data_queue_,
                 src_overflow_counter_, sink_overflow_counter_,
                 correspondence_fail_counter_, pipeline_, pipeline_state, ports,
                 frame_counter_, watchdog_counter_, delivering_appsink_sample_,
                 elapsed, message_thread_>>
  /\ UNCHANGED <<envVars, call_ud, pc_sink, cb, histVars>>

\* the rest of start(): setDiscardEverything(false) ... message_thread_ = ...
StartBody ==
  /\ Running /\ pc_caller = "start_body"
  /\ discard_everything_' = FALSE
  /\ terminate_' = FALSE
  /\ gst_state' = "PLAYING"
  /\ bus' = Append(bus, "PLAYING")
  /\ watchdog_counter_' = 0
  /\ elapsed' = 0
  /\ message_thread_' = "check"
  /\ Return
  /\ hist' = [hist EXCEPT !.starts = IF InWatchdog THEN @ + 1 ELSE @,
                          !.quiet = 0,
                          !.stalled_run = IF InWatchdog THEN @ ELSE 0,
                          !.restarted = @ \/ Head(cstack) = "wd_ret"]
  /\ UNCHANGED <<queue_, discard_mode_, frameBuffers, user_data_queue_,
                 src_overflow_counter_, sink_overflow_counter_,
                 correspondence_fail_counter_, pipeline_, pipeline_state, ports,
                 frame_counter_, delivering_appsink_sample_>>
  /\ UNCHANGED <<inflight, call_ud, pc_sink, cb, fault, submitted, popped>>


----------------------------------------------------------------------------
(* The caller thread: pushInput and pushData *)

\* pushData after gst_app_src_push_buffer returned GST_FLOW_OK, and the
\* ++frame_counter_ of pushInput
AcceptBuffer(ud) ==
  /\ user_data_queue_' = AppendUserData(user_data_queue_, frame_counter_, ud)
  /\ src_overflow_counter_' =
       IF UserDataQueueFull(user_data_queue_)
         THEN BumpCounter(src_overflow_counter_, FRAME_DROP_REPORT_RATE)
         ELSE src_overflow_counter_
  /\ inflight' = inflight \cup {frame_counter_}
  /\ frame_counter_' = frame_counter_ + 1
  /\ submitted' = Append(submitted, [id |-> frame_counter_, ud |-> ud])
  /\ last_ret' = "true"
  /\ pc_caller' = "idle"
  /\ call_ud' = "none"

\* no callback is running and none has returned, nor has start() run, for the
\* watchdog timeout
Quiet == pc_sink = "idle" /\ hist.quiet >= WATCHDOG_TIMEOUT

\* pushInput(buffer, user_data) with a buffer of a size of which the appsrc
\* holds cap
PushInputSized(ud, cap) ==
  LET stalled == WatchdogStalled(delivering_appsink_sample_, elapsed)
      h == [hist EXCEPT !.stops = 0, !.starts = 0,
                        !.stalled_run =
                           IF ~Quiet THEN 0
                           ELSE IF @ >= WATCHDOG_RESET_COUNT THEN 1 ELSE @ + 1]
  IN
  /\ Running /\ pc_caller = "idle" /\ pipeline_
  /\ hist' = h
  /\ IF stalled /\ WatchdogFires(watchdog_counter_ + 1)
       THEN \* stop(); start(); return false;
            /\ watchdog_counter_' = watchdog_counter_ + 1
            /\ StopEnter(<<"wd_start">>)
            /\ UNCHANGED <<user_data_queue_, src_overflow_counter_,
                           frame_counter_, inflight, submitted, last_ret, call_ud>>
       ELSE /\ watchdog_counter_' = IF stalled THEN watchdog_counter_ + 1 ELSE 0
            /\ UNCHANGED <<discard_everything_, terminate_, cstack>>
            /\ IF ~AdmitInput(discard_mode_, user_data_queue_)
                 THEN /\ last_ret' = "false"
                      /\ UNCHANGED <<user_data_queue_, src_overflow_counter_,
                                     frame_counter_, inflight, submitted,
                                     pc_caller, call_ud>>
                 ELSE IF IngestBlocksAt(gst_state, inflight, cap)
                   THEN \* waits inside gst_app_src_push_buffer, holding
                        \* user_data_queue_mutex_
                        /\ pc_caller' = "ingest_blocked"
                        /\ call_ud' = ud
                        /\ UNCHANGED <<user_data_queue_, src_overflow_counter_,
                                       frame_counter_, inflight, submitted, last_ret>>
                   ELSE IF IngestAccepts(gst_state)
                     THEN AcceptBuffer(ud)
                     ELSE /\ last_ret' = "false"
                          /\ UNCHANGED <<user_data_queue_, src_overflow_counter_,
                                         frame_counter_, inflight, submitted,
                                         pc_caller, call_ud>>
  /\ UNCHANGED <<queue_, discard_mode_, frameBuffers, sink_overflow_counter_,
                 correspondence_fail_counter_, pipeline_, pipeline_state, ports,
                 delivering_appsink_sample_, elapsed, message_thread_>>
  /\ UNCHANGED <<gst_state, bus, pc_sink, cb, fault, popped>>

\* pushInput(buffer, user_data) with a buffer of the usual size
PushInput(ud) == PushInputSized(ud, IngestCap)

\* the application submits a frame so small that the appsrc never fills
SubmitSmall ==
  /\ frame_counter_ < MaxFrames
  /\ \E ud \in UserData : PushInputSized(ud, SmallFrameCap)

\* the application submits a frame with any user data
Submit ==
  /\ frame_counter_ < MaxFrames
  /\ \E ud \in UserData : PushInput(ud)

\* the application submits a frame, the user data being of no interest
SubmitOne ==
  /\ frame_counter_ < MaxWatchdogFrames
  /\ PushInput("a")

\* the application submits one of a longer run of frames
SubmitFrame ==
  /\ frame_counter_ < MaxEgressFrames
  /\ \E ud \in UserData : PushInput(ud)

\* the appsrc has room again: gst_app_src_push_buffer returns
IngestUnblock ==
  /\ Running /\ pc_caller = "ingest_blocked"
  /\ ~IngestBlocks(gst_state, inflight)
  /\ AcceptBuffer(call_ud)
  /\ UNCHANGED <<queue_, discard_everything_, discard_mode_, frameBuffers,
                 sink_overflow_counter_, correspondence_fail_counter_,
                 pipeline_, pipeline_state, ports, watchdog_counter_,
                 delivering_appsink_sample_, elapsed, terminate_, message_thread_>>
  /\ UNCHANGED <<gst_state, bus, cstack, pc_sink, cb, fault, popped, hist>>

\* one second passes
Tick ==
  /\ Running
  /\ elapsed < WATCHDOG_TIMEOUT \/ hist.quiet < WATCHDOG_TIMEOUT
  /\ elapsed' = IF elapsed < WATCHDOG_TIMEOUT THEN elapsed + 1 ELSE elapsed
  /\ hist' = [hist EXCEPT !.quiet = IF @ < WATCHDOG_TIMEOUT THEN @ + 1 ELSE @]
  /\ UNCHANGED <<queue_, discard_everything_, discard_mode_, frameBuffers, user_data_queue_,
                 src_overflow_counter_, sink_overflow_counter_,
                 correspondence_fail_counter_, pipeline_, pipeline_state, ports,
                 frame_counter_, watchdog_counter_, delivering_appsink_sample_,
                 terminate_, message_thread_>>
  /\ UNCHANGED <<envVars, pcVars, fault, submitted, popped, last_ret>>


----------------------------------------------------------------------------
(* The streaming thread: newAppsinkSampleCallback / newSampleCallback *)

\* the callback returns (the statements after its return are never run)
Delivered(h) == [h EXCEPT !.quiet = 0, !.delivered = TRUE, !.stalled_run = 0]

\* the pipeline emits new-sample for one of the buffers it holds; the
\* callback sets delivering_appsink_sample_, pulls the sample and reads its
\* correspondence meta
CallbackBegin ==
  /\ Running /\ pc_sink = "idle" /\ gst_state = "PLAYING"
  /\ \E id \in inflight, has_meta \in BOOLEAN :
       /\ inflight' = inflight \ {id}
       /\ delivering_appsink_sample_' = TRUE
       /\ IF has_meta
            THEN /\ pc_sink' = "cb_lock"
                 /\ cb' = [NoSample EXCEPT !.id = id]
                 /\ hist' = [hist EXCEPT !.in_order = @ /\ id = Min(inflight)]
                 /\ UNCHANGED correspondence_fail_counter_
            ELSE \* correspondence_id == -1: counted and discarded
                 /\ correspondence_fail_counter_' =
                      BumpCounter(correspondence_fail_counter_,
                                  CORRESPONDENCE_FAIL_REPORT_RATE)
                 /\ hist' = Delivered([hist EXCEPT !.in_order = FALSE])
                 /\ UNCHANGED <<pc_sink, cb>>
  /\ UNCHANGED <<queue_, discard_everything_, discard_mode_, frameBuffers, user_data_queue_,
                 src_overflow_counter_, sink_overflow_counter_, pipeline_,
                 pipeline_state, ports, frame_counter_, watchdog_counter_, elapsed,
                 terminate_, message_thread_>>
  /\ UNCHANGED <<gst_state, bus, pc_caller, cstack, call_ud, fault, submitted,
                 popped, last_ret>>

\* the ids a sample can carry in its correspondence meta
ResultIds == 0..MaxFrames

\* the pipeline emits new-sample for a buffer with any correspondence id,
\* that of a buffer it holds or another (a buffer made or relabelled inside
\* the pipeline); the callback pulls the sample and reads the id
CallbackAnyId ==
  /\ Running /\ pc_sink = "idle" /\ gst_state = "PLAYING"
  /\ \E id \in ResultIds :
       /\ inflight' = inflight \ {id}
       /\ cb' = [NoSample EXCEPT !.id = id]
       /\ hist' = [hist EXCEPT !.in_order =
                      @ /\ id \in inflight /\ id = Min(inflight \cup {id})]
  /\ delivering_appsink_sample_' = TRUE
  /\ pc_sink' = "cb_lock"
  /\ UNCHANGED <<queue_, discard_everything_, discard_mode_, frameBuffers, user_data_queue_,
                 src_overflow_counter_, sink_overflow_counter_,
                 correspondence_fail_counter_, pipeline_,
                 pipeline_state, ports, frame_counter_, watchdog_counter_, elapsed,
                 terminate_, message_thread_>>
  /\ UNCHANGED <<gst_state, bus, pc_caller, cstack, call_ud, fault, submitted,
                 popped, last_ret>>

\* gst_app_sink_pull_sample returns nullptr at end of stream
CallbackEos ==
  /\ Running /\ pc_sink = "idle" /\ gst_state = "PLAYING"
  /\ "EOS" \in Range(bus)
  /\ ~delivering_appsink_sample_
  /\ delivering_appsink_sample_' = TRUE
  /\ hist' = Delivered(hist)
  /\ UNCHANGED <<queue_, discard_everything_, discard_mode_, frameBuffers, user_data_queue_,
                 src_overflow_counter_, sink_overflow_counter_,
                 correspondence_fail_counter_, pipeline_, pipeline_state, ports,
                 frame_counter_, watchdog_counter_, elapsed, terminate_,
                 message_thread_>>
  /\ UNCHANGED <<envVars, pcVars, fault, submitted, popped, last_ret>>

\* the non-blocking branch of pushBack and the drop count of the callback
PushBackNonBlocking(e, h) ==
  IF QueueFull(queue_)
    THEN /\ sink_overflow_counter_' =
              BumpCounter(sink_overflow_counter_, FRAME_DROP_REPORT_RATE)
         /\ hist' = Delivered([h EXCEPT !.out_full = TRUE,
                                        !.dropped = @ \cup {e.id}])
         /\ UNCHANGED queue_
    ELSE /\ queue_' = Append(queue_, e)
         /\ hist' = Delivered([h EXCEPT !.inserted = Append(@, e.id)])
         /\ UNCHANGED sink_overflow_counter_

\* the block under user_data_queue_mutex_ and what follows it up to pushBack
CallbackMatch ==
  /\ Running /\ pc_sink = "cb_lock"
  /\ pc_caller # "ingest_blocked"        \* the mutex is free
  /\ IF user_data_queue_ = <<>>
       THEN \* "user data queue is empty. Discarding sample."
            /\ pc_sink' = "idle"
            /\ cb' = NoSample
            /\ hist' = Delivered([hist EXCEPT !.dropped = @ \cup {cb.id}])
            /\ UNCHANGED <<user_data_queue_, queue_, sink_overflow_counter_, fault>>
       ELSE LET m == MatchLoop(user_data_queue_, cb.id)
                e == OutputTuple(cb.id, m.tuple)
                n == Len(user_data_queue_) - Len(m.rest) - 1
                \* the entries popped before the one the loop ended on
                stale == {user_data_queue_[i].offset : i \in 1..n}
                h == [hist EXCEPT !.skipped = @ \cup stale]
            IN
            /\ user_data_queue_' = m.rest
            /\ CASE m.kind = "throw" ->
                      \* Error("Correspondence id is smaller than first element")
                      /\ fault' = "ordering_error"
                      /\ pc_sink' = "thrown"
                      /\ hist' = [h EXCEPT !.skipped = @ \cup {m.tuple.offset}]
                      /\ UNCHANGED <<queue_, sink_overflow_counter_, cb>>
                 [] m.kind = "empty" ->
                      \* front() and pop_front() of an empty deque: undefined
                      /\ fault' = "front_of_empty_user_data_queue"
                      /\ pc_sink' = "undefined"
                      /\ hist' = [hist EXCEPT !.skipped =
                                    @ \cup {user_data_queue_[i].offset :
                                              i \in 1..Len(user_data_queue_)}]
                      /\ UNCHANGED <<queue_, sink_overflow_counter_, cb>>
                 [] OTHER ->
                      /\ UNCHANGED fault
                      /\ IF BlockingOutput(discard_mode_)
                           THEN /\ pc_sink' = "pb_loop"
                                /\ cb' = e
                                /\ hist' = [h EXCEPT !.out_full = @ \/ QueueFull(queue_)]
                                /\ UNCHANGED <<queue_, sink_overflow_counter_>>
                           ELSE /\ pc_sink' = "idle"
                                /\ cb' = NoSample
                                /\ PushBackNonBlocking(e, h)
  /\ UNCHANGED <<discard_everything_, discard_mode_, frameBuffers, src_overflow_counter_,
                 correspondence_fail_counter_, pipeline_, pipeline_state, ports,
                 frame_counter_, watchdog_counter_, delivering_appsink_sample_,
                 elapsed, terminate_, message_thread_>>
  /\ UNCHANGED <<envVars, pc_caller, cstack, call_ud, submitted, popped, last_ret>>


\* the blocking branch of pushBack leaves its wait loop:
\*   while (queue_.size() >= max_queue_size_ && !discard_everything_) wait_for
PushBackWake ==
  /\ Running /\ pc_sink = "pb_loop"
  /\ PushBackMayProceed(queue_, discard_everything_)
  /\ pc_sink' = "pb_locked"
  /\ UNCHANGED <<codeVars, envVars, pc_caller, cstack, call_ud, cb, histVars>>

\* if (discard_everything_) return false; queue_.push_back(...); return true;
\* and the drop count of the callback
PushBackFinish ==
  /\ Running /\ pc_sink = "pb_locked"
  /\ IF discard_everything_
       THEN /\ sink_overflow_counter_' =
                 BumpCounter(sink_overflow_counter_, FRAME_DROP_REPORT_RATE)
            /\ hist' = Delivered([hist EXCEPT !.dropped = @ \cup {cb.id}])
            /\ UNCHANGED queue_
       ELSE /\ queue_' = Append(queue_, cb)
            /\ hist' = Delivered([hist EXCEPT !.inserted = Append(@, cb.id)])
            /\ UNCHANGED sink_overflow_counter_
  /\ pc_sink' = "idle"
  /\ cb' = NoSample
  /\ UNCHANGED <<discard_everything_, discard_mode_, frameBuffers, user_data_queue_,
                 src_overflow_counter_, correspondence_fail_counter_, pipeline_,
                 pipeline_state, ports, frame_counter_, watchdog_counter_,
                 delivering_appsink_sample_, elapsed, terminate_, message_thread_>>
  /\ UNCHANGED <<envVars, pc_caller, cstack, call_ud, fault, submitted, popped,
                 last_ret>>

\* the pipeline drops (or merges away) a buffer it holds
PipelineDrop ==
  /\ Running /\ pc_sink = "idle" /\ gst_state = "PLAYING"
  /\ \E id \in inflight : inflight' = inflight \ {id}
  /\ hist' = [hist EXCEPT !.in_order = FALSE]
  /\ UNCHANGED <<codeVars, gst_state, bus, pcVars, fault, submitted, popped,
                 last_ret>>

----------------------------------------------------------------------------
(* SPSCFixedQueue used by itself: a producer that calls pushBack with      *)
(* either value of block (and counts the pushes that return false), and a  *)
(* third thread that calls setDiscardEverything                            *)

\* pushBack(element, block)
QueuePushBack ==
  /\ Running /\ pc_sink = "idle"
  /\ Len(hist.inserted) < MaxFrames
  /\ \E ud \in UserData, block \in BOOLEAN :
       LET n == Len(hist.inserted)
           e == [id |-> n, offset |-> n, ud |-> ud]
       IN IF block
            THEN /\ pc_sink' = "pb_loop"
                 /\ cb' = e
                 /\ UNCHANGED <<queue_, sink_overflow_counter_, hist>>
            ELSE /\ PushBackNonBlocking(e, hist)
                 /\ UNCHANGED <<pc_sink, cb>>
  /\ UNCHANGED <<discard_everything_, discard_mode_, frameBuffers, user_data_queue_,
                 src_overflow_counter_, correspondence_fail_counter_, pipeline_,
                 pipeline_state, ports, frame_counter_, watchdog_counter_,
                 delivering_appsink_sample_, elapsed, terminate_, message_thread_>>
  /\ UNCHANGED <<envVars, pc_caller, cstack, call_ud, fault, submitted, popped,
                 last_ret>>

\* setDiscardEverything(discard_everything): an atomic store, no lock taken
SetDiscardEverything ==
  /\ Running
  /\ discard_everything_' = ~discard_everything_
  /\ UNCHANGED <<queue_, discard_mode_, frameBuffers, user_data_queue_,
                 src_overflow_counter_, sink_overflow_counter_,
                 correspondence_fail_counter_, pipeline_, pipeline_state, ports,
                 frame_counter_, watchdog_counter_, delivering_appsink_sample_,
                 elapsed, terminate_, message_thread_>>
  /\ UNCHANGED <<envVars, pcVars, histVars>>

----------------------------------------------------------------------------
(* The consumer thread: popOutput -> popFront -> popFrontWithoutLocking *)

\* mutex_ is held by the producer between the wait loop and the push
QueueMutexFree == pc_sink # "pb_locked"

PopOutput ==
  /\ Running /\ QueueMutexFree
  /\ queue_ # <<>>
  /\ popped' = Append(popped, Head(queue_))
  /\ queue_' = Tail(queue_)
  /\ UNCHANGED <<discard_everything_, discard_mode_, frameBuffers, user_data_queue_,
                 src_overflow_counter_, sink_overflow_counter_,
                 correspondence_fail_counter_, pipeline_, pipeline_state, ports,
                 frame_counter_, watchdog_counter_, delivering_appsink_sample_,
                 elapsed, terminate_, message_thread_>>
  /\ UNCHANGED <<envVars, pcVars, fault, submitted, last_ret, hist>>

\* popFront on an empty queue does not wait: queue_.front() and pop_front()
\* of an empty deque, undefined behaviour
PopOutputEmpty ==
  /\ Running /\ QueueMutexFree
  /\ queue_ = <<>>
  /\ fault' = "pop_of_empty_queue"
  /\ UNCHANGED <<codeVars, envVars, pcVars, submitted, popped, last_ret, hist>>

----------------------------------------------------------------------------
(* The message thread: gstreamerLoop *)

\* while (!terminate_)
ThreadCheck ==
  /\ Running /\ message_thread_ = "check"
  /\ message_thread_' = IF terminate_ THEN "exited" ELSE "poll"
  /\ UNCHANGED <<queue_, discard_everything_, discard_mode_, frameBuffers, user_data_queue_,
                 src_overflow_counter_, sink_overflow_counter_,
                 correspondence_fail_counter_, pipeline_, pipeline_state, ports,
                 frame_counter_, watchdog_counter_, delivering_appsink_sample_,
                 elapsed, terminate_>>
  /\ UNCHANGED <<envVars, pcVars, histVars>>

\* gst_bus_timed_pop_filtered and the switch on the message
ThreadPoll ==
  /\ Running /\ message_thread_ = "poll"
  /\ message_thread_' = "check"
  /\ IF bus = <<>>
       THEN UNCHANGED <<bus, terminate_, pipeline_state, hist>>
       ELSE /\ bus' = Tail(bus)
            /\ hist' = [hist EXCEPT !.error_seen = @ \/ Head(bus) = "ERROR"]
            /\ IF Head(bus) \in {"ERROR", "EOS"}
                 THEN /\ terminate_' = TRUE
                      /\ UNCHANGED pipeline_state
                 ELSE /\ pipeline_state' = Head(bus)
                      /\ UNCHANGED terminate_
  /\ UNCHANGED <<queue_, discard_everything_, discard_mode_, frameBuffers, user_data_queue_,
                 src_overflow_counter_, sink_overflow_counter_,
                 correspondence_fail_counter_, pipeline_, frame_counter_,
                 watchdog_counter_, delivering_appsink_sample_, elapsed>>
  /\ UNCHANGED <<ports, gst_state, inflight, pcVars, fault, submitted, popped,
                 last_ret>>

\* the pipeline posts an error or end-of-stream message
PostMessage ==
  /\ Running /\ gst_state = "PLAYING"
  /\ hist.bus_events < MaxBusEvents
  /\ \E msg \in {"ERROR", "EOS"} : bus' = Append(bus, msg)
  /\ hist' = [hist EXCEPT !.bus_events = @ + 1]
  /\ UNCHANGED <<codeVars, gst_state, inflight, pcVars, fault, submitted,
                 popped, last_ret>>

----------------------------------------------------------------------------
(* GstWrapper / GstBufferWrapper: the handle of one frame buffer.  A handle *)
(* is a slot of wrappers; native is what GStreamer knows of each buffer.    *)

bufferRest == <<queue_, discard_everything_, discard_mode_, user_data_queue_,
                src_overflow_counter_, sink_overflow_counter_,
                correspondence_fail_counter_, pipeline_, pipeline_state, ports,
                frame_counter_, watchdog_counter_, delivering_appsink_sample_,
                elapsed, terminate_, message_thread_, envVars, pcVars,
                submitted, popped, last_ret, hist>>

\* the two flags after unmap(): mapped_ = false; mapped_writable_ = false
Unmapped(w) == [w EXCEPT !.mapped_ = FALSE, !.mapped_writable_ = FALSE]

\* gst_buffer_unmap / gst_buffer_map on the buffer p of nat
NativeMode(nat, p, m) == [nat EXCEPT ![p].mode = m]

\* GstBufferWrapper::unref(): <<the handle, the buffers>> it leaves
Unref(w, nat) ==
  IF w.ptr_ = 0
    THEN <<w, nat>>
    ELSE LET w1 == IF w.mapped_ THEN Unmapped(w) ELSE w
             n1 == IF w.mapped_ THEN NativeMode(nat, w.ptr_, "none") ELSE nat
             n2 == IF w.owns_buffer_
                     THEN [n1 EXCEPT ![w.ptr_].alive = FALSE]
                     ELSE n1
         IN <<w1, n2>>

\* GstBufferWrapper(GstBuffer* ptr, bool owns_buffer) on a new buffer
Wrap(h, b, owns) ==
  /\ Running
  /\ ~wrappers[h].live
  /\ ~native[b].alive
  /\ \A g \in Handles : wrappers[g].ptr_ # b
  /\ wrappers' = [wrappers EXCEPT ![h] =
                    [live |-> TRUE, ptr_ |-> b, mapped_ |-> FALSE,
                     mapped_writable_ |-> FALSE, owns_buffer_ |-> owns]]
  /\ native' = [native EXCEPT ![b] = [mode |-> "none", alive |-> TRUE]]
  /\ UNCHANGED <<bufferRest, fault>>

\* map(): if (!mapped_) { gst_buffer_map(READ); mapped_ = true; }
\* gst_buffer_map of a null buffer fails and map() throws
Map(h) ==
  LET w == wrappers[h] IN
  /\ Running
  /\ w.live
  /\ IF w.mapped_ \/ w.ptr_ = 0
       THEN UNCHANGED <<wrappers, native>>
       ELSE /\ wrappers' = [wrappers EXCEPT ![h].mapped_ = TRUE]
            /\ native' = NativeMode(native, w.ptr_, "read")
  /\ UNCHANGED <<bufferRest, fault>>

\* getSize(): ensureMapped(), that is if (!mapped_) map(); return info_.size
GetSize(h) ==
  LET w == wrappers[h] IN
  /\ Running
  /\ w.live
  /\ IF w.mapped_
       THEN UNCHANGED <<wrappers, native>>
       ELSE IF w.ptr_ = 0
         THEN UNCHANGED <<wrappers, native>>
         ELSE /\ wrappers' = [wrappers EXCEPT ![h].mapped_ = TRUE]
              /\ native' = NativeMode(native, w.ptr_, "read")
  /\ UNCHANGED <<bufferRest, fault>>

\* mapWritable(): if (!mapped_writable_) { if (mapped_) unmap();
\*   gst_buffer_map(WRITE); mapped_ = true; mapped_writable_ = true; }
MapWritable(h) ==
  LET w == wrappers[h] IN
  /\ Running
  /\ w.live
  /\ IF w.mapped_writable_
       THEN UNCHANGED <<wrappers, native>>
       ELSE IF w.ptr_ = 0
         \* gst_buffer_unmap of a null buffer does nothing, gst_buffer_map
         \* fails and mapWritable() throws
         THEN /\ wrappers' = [wrappers EXCEPT
                                ![h] = IF w.mapped_ THEN Unmapped(w) ELSE w]
              /\ UNCHANGED native
         ELSE /\ wrappers' = [wrappers EXCEPT ![h].mapped_ = TRUE,
                                              ![h].mapped_writable_ = TRUE]
              /\ native' = NativeMode(native, w.ptr_, "write")
  /\ UNCHANGED <<bufferRest, fault>>

\* unmap(): gst_buffer_unmap(get(), &info_) whatever the flags say, then both
\* flags false.  With no mapping to end, info_ is uninitialized or stale.
Unmap(h) ==
  LET w == wrappers[h] IN
  /\ Running
  /\ w.live
  /\ wrappers' = [wrappers EXCEPT ![h] = Unmapped(w)]
  /\ IF w.ptr_ = 0
       THEN UNCHANGED <<native, fault>>
       ELSE IF native[w.ptr_].mode = "none"
         THEN /\ fault' = "unmap_without_mapping"
              /\ UNCHANGED native
         ELSE /\ native' = NativeMode(native, w.ptr_, "none")
              /\ UNCHANGED fault
  /\ UNCHANGED bufferRest

\* GstBufferWrapper(GstBufferWrapper&& other): GstWrapper(std::move(other))
\* takes ptr_ and nulls other.ptr_; then the four members are copied
MoveConstruct(d, s) ==
  /\ Running
  /\ d # s
  /\ ~wrappers[d].live
  /\ wrappers[s].live
  /\ wrappers' = [wrappers EXCEPT ![d] = wrappers[s],
                                  ![s].ptr_ = 0]
  /\ UNCHANGED <<native, bufferRest, fault>>

\* the handle operator=(GstBufferWrapper&& other) leaves in *this:
\* GstWrapper::operator= runs unref() and takes ptr_; then owns_buffer_,
\* info_ and mapped_ are copied
MoveAssigned(w, other) ==
  [w EXCEPT !.ptr_ = other.ptr_,
            !.owns_buffer_ = other.owns_buffer_,
            !.mapped_ = other.mapped_]

MoveAssign(d, s) ==
  LET u == Unref(wrappers[d], native) IN
  /\ Running
  /\ d # s
  /\ wrappers[d].live
  /\ wrappers[s].live
  /\ wrappers' = [wrappers EXCEPT ![d] = MoveAssigned(u[1], wrappers[s]),
                                  ![s].ptr_ = 0]
  /\ native' = u[2]
  /\ UNCHANGED <<bufferRest, fault>>

\* ~GstBufferWrapper(): unref()
Release(h) ==
  LET u == Unref(wrappers[h], native) IN
  /\ Running
  /\ wrappers[h].live
  /\ wrappers' = [wrappers EXCEPT ![h] = NoWrapper]
  /\ native' = u[2]
  /\ UNCHANGED <<bufferRest, fault>>

----------------------------------------------------------------------------
(* Spec: the data path.  The application initializes and starts the        *)
(* pipeline, submits frames with arbitrary user data and pops results; the *)
(* pipeline returns, reorders, strips or drops the buffers it holds.  The  *)
(* clock stands still (no delivery is ever late) and a running pipeline is *)
(* not stopped; SpecWatchdog has both.                                     *)

Next ==
  \/ Initialize
  \/ InitializeFails
  \/ UseBeforeInitialize
  \/ StartOnce
  \/ StartEnter
  \/ StartJoinable
  \/ StartBody
  \/ StopSetState
  \/ StopJoin
  \/ Submit
  \/ IngestUnblock
  \/ CallbackBegin
  \/ CallbackMatch
  \/ PushBackWake
  \/ PushBackFinish
  \/ PipelineDrop
  \/ PopOutput
  \/ PopOutputEmpty

Spec == Init /\ [][Next]_vars

(* SpecWatchdog: the watchdog and the lifecycle.  Time passes, pushInput   *)
(* restarts the pipeline, start() stops a running pipeline, the message    *)
(* thread runs.  The consumer pops only what is there.                     *)

NextWatchdog ==
  \/ Initialize
  \/ StartCall
  \/ StartEnter
  \/ StartJoinable
  \/ StartBody
  \/ StopCall
  \/ StopSetState
  \/ StopJoin
  \/ SubmitOne
  \/ IngestUnblock
  \/ Tick
  \/ CallbackBegin
  \/ CallbackMatch
  \/ PushBackWake
  \/ PushBackFinish
  \/ PopOutput
  \/ ThreadCheck
  \/ ThreadPoll

SpecWatchdog == Init /\ [][NextWatchdog]_vars

(* SpecQueue: the output queue by itself, with one producer, one consumer *)
(* that pops what is there, and drain mode switched at any time.          *)

NextQueue ==
  \/ QueuePushBack
  \/ PushBackWake
  \/ PushBackFinish
  \/ PopOutput
  \/ SetDiscardEverything

SpecQueue == Init /\ [][NextQueue]_vars

(* SpecStatus: the status thread and the messages of the pipeline.  The    *)
(* pipeline posts an error or the end of the stream and delivers nothing;  *)
(* the application starts, stops and submits; time passes.                 *)

NextStatus ==
  \/ Initialize
  \/ StartCall
  \/ StartEnter
  \/ StartJoinable
  \/ StartBody
  \/ StopCall
  \/ StopSetState
  \/ StopJoin
  \/ SubmitOne
  \/ Tick
  \/ CallbackEos
  \/ ThreadCheck
  \/ ThreadPoll
  \/ PostMessage

SpecStatus == Init /\ [][NextStatus]_vars

(* SpecBuffer: frame buffer handles by themselves.  The program wraps new  *)
(* buffers, owning them or not, maps, unmaps, reads the size of, moves and  *)
(* releases the handles in any order.                                       *)

NextBuffer ==
  \/ \E h \in Handles, b \in Buffers, owns \in BOOLEAN : Wrap(h, b, owns)
  \/ \E h \in Handles : Map(h)
  \/ \E h \in Handles : GetSize(h)
  \/ \E h \in Handles : MapWritable(h)
  \/ \E h \in Handles : Unmap(h)
  \/ \E d \in Handles, s \in Handles : MoveConstruct(d, s)
  \/ \E d \in Handles, s \in Handles : MoveAssign(d, s)
  \/ \E h \in Handles : Release(h)

SpecBuffer == Init /\ [][NextBuffer]_vars

(* SpecPending: the pending side-queue over the whole life of the          *)
(* pipeline.  The application starts, stops and restarts the pipeline and  *)
(* submits frames in any of its states; the pipeline returns the buffers   *)
(* it holds in any order, with or without their correspondence meta; the   *)
(* message thread runs.  Nothing is popped and the clock stands still.     *)

NextPending ==
  \/ Initialize
  \/ StartCall
  \/ StartEnter
  \/ StartJoinable
  \/ StartBody
  \/ StopCall
  \/ StopSetState
  \/ StopJoin
  \/ Submit
  \/ IngestUnblock
  \/ CallbackBegin
  \/ CallbackMatch
  \/ PushBackWake
  \/ PushBackFinish
  \/ ThreadCheck
  \/ ThreadPoll

SpecPending == Init /\ [][NextPending]_vars

(* SpecEgress: a long run of results.  The application starts the         *)
(* pipeline once, submits frames and pops; the pipeline returns every      *)
(* buffer it holds, in any order, with or without its correspondence meta. *)

NextEgress ==
  \/ Initialize
  \/ StartOnce
  \/ StartEnter
  \/ StartJoinable
  \/ StartBody
  \/ SubmitFrame
  \/ IngestUnblock
  \/ CallbackBegin
  \/ CallbackMatch
  \/ PushBackWake
  \/ PushBackFinish
  \/ PopOutput

SpecEgress == Init /\ [][NextEgress]_vars

(* SpecMatch: the matching step on any result.  As Spec, but the sample    *)
(* the callback pulls carries any correspondence id.                       *)

NextMatch ==
  \/ Initialize
  \/ StartOnce
  \/ StartEnter
  \/ StartJoinable
  \/ StartBody
  \/ Submit
  \/ IngestUnblock
  \/ CallbackAnyId
  \/ CallbackMatch
  \/ PushBackWake
  \/ PushBackFinish
  \/ PopOutput

SpecMatch == Init /\ [][NextMatch]_vars

(* SpecSlowEgress: slow egress.  As Spec, but the frames are small and the *)
(* pipeline holds more of them than the pending side-queue has room for.   *)

NextSlowEgress ==
  \/ Initialize
  \/ StartOnce
  \/ StartEnter
  \/ StartJoinable
  \/ StartBody
  \/ SubmitSmall
  \/ CallbackBegin
  \/ CallbackMatch
  \/ PushBackWake
  \/ PushBackFinish
  \/ PipelineDrop
  \/ PopOutput

SpecSlowEgress == Init /\ [][NextSlowEgress]_vars

(* The streaming thread runs: the wait of pushBack is a wait_for of 100 ms  *)
(* in a loop, and the thread that left the loop holds mutex_ and goes on.   *)
SpecWatchdogLive ==
  SpecWatchdog /\ WF_vars(PushBackWake) /\ WF_vars(PushBackFinish)

(* The threads that stop() waits for run, and so does stop(): the          *)
(* streaming thread goes on inside the callback, gstreamerLoop polls with  *)
(* a timeout of 100 ms and tests terminate_, gst_element_set_state and     *)
(* join return when what they wait for has happened.  Nothing is assumed   *)
(* about the consumer.                                                     *)
SpecStopLive ==
  /\ SpecWatchdog
  /\ WF_vars(CallbackMatch) /\ WF_vars(PushBackWake) /\ WF_vars(PushBackFinish)
  /\ WF_vars(ThreadCheck) /\ WF_vars(ThreadPoll)
  /\ WF_vars(StopSetState) /\ WF_vars(StopJoin)


----------------------------------------------------------------------------
(* Properties *)

\* the [id, ud] of an output tuple or of a pending entry
Pair(e) == [id |-> e.offset, ud |-> e.ud]

PairsOf(q) == [i \in 1..Len(q) |-> Pair(q[i])]

IsPrefix(s, t) == Len(s) <= Len(t) /\ \A i \in 1..Len(s) : s[i] = t[i]

\* the output tuple the callback holds while it waits in pushBack
Held == IF pc_sink \in {"pb_loop", "pb_locked"} THEN <<cb>> ELSE <<>>

\* the scenario of C1: every result so far carried its id and was the
\* oldest buffer in flight, none was dropped by the pipeline, and no
\* matched result found the output queue full
InOrderScenario == Running /\ hist.in_order /\ ~hist.out_full

Published == Range(popped) \cup Range(queue_) \cup Range(Held)

(* C2: a result whose correspondence id is smaller than the offset of the   *)
(* oldest pending entry ends in the ordering error when the callback        *)
(* matches it: the program stops with that exception, the output queue is   *)
(* left as it was, and no tuple with that buffer is ever published.         *)
C2_SmallerIdIsFatal ==
  [][ ( /\ pc_sink = "cb_lock"
        /\ user_data_queue_ # <<>>
        /\ cb.id < Head(user_data_queue_).offset
        /\ CallbackMatch )
      => ( /\ fault' = "ordering_error"
           /\ pc_sink' = "thrown"
           /\ queue_' = queue_
           /\ \A e \in Published' : e.id # cb.id ) ]_vars

C2_Witness ==
  /\ fault = "ordering_error"
  /\ pc_sink = "thrown"
  /\ queue_ # <<>>
  /\ hist.skipped # {}
  /\ \A o \in hist.skipped : cb.id < o

\* the entries of udq whose offset is smaller than id
Stale(udq, id) == {i \in 1..Len(udq) : udq[i].offset < id}

(* C3: when the result's id is the offset of a pending entry that K entries *)
(* with smaller offsets precede, the match removes exactly these K entries  *)
(* and the matching one, the tuple it produces pairs the result's buffer    *)
(* with the matching entry's user data, and a skipped entry is never        *)
(* published: nothing popped, queued or held carries a skipped offset.      *)
C3_StaleEntriesDiscarded ==
  /\ [][ ( /\ pc_sink = "cb_lock"
           /\ \E i \in 1..Len(user_data_queue_) : user_data_queue_[i].offset = cb.id
           /\ CallbackMatch )
         => LET K == Cardinality(Stale(user_data_queue_, cb.id))
                e == [id |-> cb.id, offset |-> cb.id,
                      ud |-> user_data_queue_[K + 1].ud]
            IN /\ user_data_queue_' =
                    SubSeq(user_data_queue_, K + 2, Len(user_data_queue_))
               /\ hist'.skipped = hist.skipped \cup
                    {user_data_queue_[i].offset : i \in 1..K}
               /\ Published' \ Published \subseteq {e}
               /\ discard_mode_ # "DISCARD_OUTPUT_FRAMES"
                    => cb' = e /\ pc_sink' = "pb_loop"
               /\ ( /\ discard_mode_ = "DISCARD_OUTPUT_FRAMES"
                    /\ Len(queue_) < MaxOutputQueueSize )
                    => queue_' = Append(queue_, e) ]_vars
  /\ [](\A e \in Published : e.offset \notin hist.skipped)

C3_Witness ==
  /\ Running
  /\ \E e \in Range(popped) : e.offset = 2 /\ hist.skipped = {0, 1}
  /\ frame_counter_ = MaxFrames

(* C4: under DISCARD_INPUT_FRAMES, a pushInput that finds                   *)
(* max_input_queue_size_ (or more) entries pending returns false, and       *)
(* neither frame_counter_ nor the set of buffers handed to the appsrc nor   *)
(* the user data queue changes.                                             *)
C4_RejectedSubmitHasNoEffect ==
  [][ ( /\ discard_mode_ = "DISCARD_INPUT_FRAMES"
        /\ Len(user_data_queue_) >= MaxInputQueueSize
        /\ Submit )
      => ( /\ last_ret' = "false"
           /\ pc_caller' = "idle"
           /\ frame_counter_' = frame_counter_
           /\ inflight' = inflight
           /\ submitted' = submitted
           /\ user_data_queue_' = user_data_queue_ ) ]_vars

C4_Witness ==
  /\ discard_mode_ = "DISCARD_INPUT_FRAMES"
  /\ Len(user_data_queue_) = MaxInputQueueSize
  /\ frame_counter_ = MaxInputQueueSize
  /\ ~hist.delivered
  /\ gst_state = "PLAYING"
  /\ Cardinality(inflight) < IngestCap
  /\ pc_caller = "idle"
  /\ last_ret = "false"

(* C5: under DISCARD_OUTPUT_FRAMES, a result that matches while the output  *)
(* queue holds max_queue_size_ tuples is dropped: its pending entry is      *)
(* consumed, the queue is unchanged, the callback returns in the same step  *)
(* (it never enters the wait of pushBack), and no tuple with a dropped      *)
(* buffer is ever in the queue or popped.                                   *)
C5_FullOutputDropsWithoutBlocking ==
  /\ [][ ( /\ discard_mode_ = "DISCARD_OUTPUT_FRAMES"
           /\ pc_sink = "cb_lock"
           /\ Len(queue_) >= MaxOutputQueueSize
           /\ \E i \in 1..Len(user_data_queue_) : user_data_queue_[i].offset = cb.id
           /\ CallbackMatch )
         => ( /\ queue_' = queue_
              /\ pc_sink' = "idle"
              /\ cb.id \in hist'.dropped
              /\ \A i \in 1..Len(user_data_queue_') :
                    user_data_queue_'[i].offset > cb.id ) ]_vars
  /\ [](discard_mode_ = "DISCARD_OUTPUT_FRAMES"
          => /\ pc_sink \notin {"pb_loop", "pb_locked"}
             /\ Len(queue_) <= MaxOutputQueueSize
             /\ \A e \in Published : e.id \notin hist.dropped)

C5_Witness ==
  /\ discard_mode_ = "DISCARD_OUTPUT_FRAMES"
  /\ Running
  /\ Len(queue_) = MaxOutputQueueSize
  /\ hist.dropped = {2}
  /\ hist.skipped = {}
  /\ Len(popped) = 0

\* the callback is inside the blocking pushBack
InBlockingPush == pc_sink \in {"pb_loop", "pb_locked"}

(* C6: once drain mode is on while the callback is inside a blocking        *)
(* pushBack, the wait loop is free to exit at its next poll, drain mode     *)
(* stays on until the push has returned, the tuple is never inserted,       *)
(* pushBack returns false (the result is counted as dropped and the queue   *)
(* is left as it was), and the push does return, whatever the consumer      *)
(* does.                                                                    *)
C6_DrainReleasesBlockedPush ==
  /\ [](pc_sink = "pb_loop" /\ discard_everything_ => ENABLED PushBackWake)
  /\ [][ (InBlockingPush /\ discard_everything_)
          => ( /\ discard_everything_'
               /\ cb \notin Range(queue_')
               /\ pc_sink' = "idle"
                    => /\ queue_' = queue_
                       /\ cb.id \in hist'.dropped
                       /\ sink_overflow_counter_' # sink_overflow_counter_ ) ]_vars
  /\ (InBlockingPush /\ discard_everything_) ~> (pc_sink = "idle")

C6_Witness ==
  /\ discard_mode_ # "DISCARD_OUTPUT_FRAMES"
  /\ pc_sink = "idle"
  /\ discard_everything_
  /\ hist.out_full
  /\ Len(queue_) = MaxOutputQueueSize
  /\ hist.dropped = {2}
  /\ sink_overflow_counter_ = 1

(* C7: popOutput never takes an element from an empty queue (it waits       *)
(* instead).                                                                *)
C7_PopWaitsOnEmptyQueue == fault # "pop_of_empty_queue"

(* C8: the pushInput that is the T-th in a row to find no delivery within   *)
(* the watchdog timeout (T = WATCHDOG_RESET_COUNT, no delivery and no       *)
(* start() of the application in between) runs stop() and start(); and a    *)
(* pushInput that has done so returns false, having run exactly one stop()  *)
(* and then exactly one start(), with watchdog_counter_ zero.               *)
C8_TthStalledSubmitRestarts ==
  /\ [][ (SubmitOne /\ hist'.stalled_run = WATCHDOG_RESET_COUNT)
          => InWatchdog' ]_vars
  /\ [][ (InWatchdog /\ hist'.starts # hist.starts)
          => (hist.stops = 1 /\ hist.starts = 0) ]_vars
  /\ [][ (InWatchdog /\ pc_caller' = "idle")
          => ( /\ last_ret' = "false"
               /\ hist'.stops = 1
               /\ hist'.starts = 1
               /\ watchdog_counter_' = 0 ) ]_vars

\* the same while no result has ever been delivered: this much holds
C8_RestartsBeforeAnyDelivery ==
  /\ [][ (SubmitOne /\ ~hist.delivered /\ pc_sink = "idle")
          => ( /\ InWatchdog' <=> hist'.stalled_run = WATCHDOG_RESET_COUNT
               /\ ~InWatchdog' => watchdog_counter_' = hist'.stalled_run ) ]_vars
  /\ [][ (InWatchdog /\ hist'.starts # hist.starts)
          => (hist.stops = 1 /\ hist.starts = 0) ]_vars
  /\ [][ (InWatchdog /\ pc_caller' = "idle")
          => ( /\ last_ret' = "false"
               /\ hist'.stops = 1
               /\ hist'.starts = 1
               /\ watchdog_counter_' = 0 ) ]_vars

\* the watchdog has restarted a started pipeline that held accepted frames
C8_RestartReached ==
  /\ hist.restarted /\ ~hist.delivered
  /\ pc_caller = "idle" /\ last_ret = "false"
  /\ hist.stops = 1 /\ hist.starts = 1
  /\ watchdog_counter_ = 0
  /\ hist.stalled_run = WATCHDOG_RESET_COUNT
  /\ submitted # <<>>

(* C9: every pushInput that finds no delivery within the watchdog timeout   *)
(* (no callback running, none returned and no start() for the timeout)      *)
(* increments watchdog_counter_, also after results have been delivered.    *)
C9_StalledSubmitCounted ==
  [][ (SubmitOne /\ Quiet)
      => watchdog_counter_' = watchdog_counter_ + 1 ]_vars

\* under DISCARD_INPUT_FRAMES the admission test of pushData fails and
\* nothing is left that could remove a pending entry
PermanentlyRejecting ==
  /\ discard_mode_ = "DISCARD_INPUT_FRAMES"
  /\ Len(user_data_queue_) >= MaxInputQueueSize
  /\ inflight = {}
  /\ pc_sink = "idle"
  /\ pc_caller # "ingest_blocked"

\* the pushInput that returned last ran the stop(); start(); of the watchdog
JustRestarted ==
  /\ pc_caller = "idle"
  /\ hist.stops = 1 /\ hist.starts = 1
  /\ gst_state = "PLAYING"

(* C10: when the watchdog has restarted the pipeline, the supervisor is not *)
(* left in a state from which every pushInput is rejected.                  *)
C10_UsableAfterRestart == JustRestarted => ~PermanentlyRejecting

\* such a state is never left, and pushInput returns false in it
C10_RejectingIsPermanent ==
  /\ [][PermanentlyRejecting => PermanentlyRejecting']_vars
  /\ [][ (PermanentlyRejecting /\ SubmitOne)
          => ( /\ frame_counter_' = frame_counter_
               /\ submitted' = submitted
               /\ pc_caller' = "idle" => last_ret' = "false" ) ]_vars

(* C11: gstreamerLoop answers an error message by setting terminate_, so    *)
(* that its loop ends at the next test; and once it has handled an error,   *)
(* pushInput does not run the stop(); start(); of the watchdog until the    *)
(* application has called stop() or start() itself.                         *)
C11_NoRestartAfterError ==
  /\ [][ (ThreadPoll /\ bus # <<>> /\ Head(bus) = "ERROR") => terminate_' ]_vars
  /\ [][ (hist.error_seen /\ ~InWatchdog) => ~InWatchdog' ]_vars

\* the first half alone: the loop ends on an error, this much holds
C11_LoopEndsOnError ==
  /\ [][ (ThreadPoll /\ bus # <<>> /\ Head(bus) = "ERROR") => terminate_' ]_vars
  /\ [][ (ThreadCheck /\ terminate_) => message_thread_' = "exited" ]_vars


\* the position of the accepted pushInput that was given id
SubmitIndex(id) == CHOOSE i \in 1..Len(submitted) : submitted[i].id = id

(* C12: the ids of the tuples pushed into the output queue, in the order    *)
(* of the pushes, increase: a tuple pushed later never carries a smaller    *)
(* (or the same) id; every pushed id is the id of an accepted pushInput,    *)
(* and the pushes follow the order of these pushInput calls.  Results may   *)
(* come back in any order, without their id, or not at all.                 *)
C12_PublishedIdsIncrease ==
  /\ \A i, j \in 1..Len(hist.inserted) :
        i < j => /\ hist.inserted[i] < hist.inserted[j]
                 /\ SubmitIndex(hist.inserted[i]) < SubmitIndex(hist.inserted[j])
  /\ \A i \in 1..Len(hist.inserted) :
        \E k \in 1..Len(submitted) : submitted[k].id = hist.inserted[i]

\* results 1 and 3 were pushed, 0 and 2 were skipped, and the late results
\* 0 and 2 have come back with their ids and were not pushed
C12_Witness ==
  /\ hist.inserted = <<1, 3>>
  /\ hist.skipped = {0, 2}
  /\ hist.dropped = {0, 2}
  /\ inflight = {}
  /\ pc_sink = "idle"
  /\ Running


\* the caller is inside stop()
InStop == pc_caller \in {"stop_setstate", "stop_join"}

(* C13: a stop() that has begun returns (unless the callback stops the      *)
(* program with its ordering error first), whatever the consumer does:      *)
(* a callback waiting in the blocking pushBack is free to leave its wait,   *)
(* and when stop() returns the pipeline is in state NULL, no callback is    *)
(* running and the message thread has been joined.                          *)
C13_StopTerminates ==
  /\ [](InStop /\ pc_sink = "pb_loop" => ENABLED PushBackWake)
  /\ [][ StopJoin => ( /\ gst_state' = "NULL"
                       /\ pc_sink' = "idle"
                       /\ ~Joinable(message_thread_') ) ]_vars
  /\ InStop ~> (~InStop \/ ~Running)

\* stop() has returned after it released a callback that waited on a full
\* output queue from which nothing was ever popped
C13_Witness ==
  /\ pc_caller = "idle" /\ last_ret = "void"
  /\ gst_state = "NULL"
  /\ message_thread_ = "none"
  /\ discard_everything_
  /\ Len(queue_) = MaxOutputQueueSize
  /\ popped = <<>>
  /\ hist.found_blocked
  /\ hist.dropped = {2}
  /\ sink_overflow_counter_ = 1


(* C14: the output queue never holds more than max_queue_size_ tuples,      *)
(* whatever the producer pushes (blocking or not), the consumer pops and    *)
(* whenever drain mode is switched.                                         *)
C14_QueueNeverExceedsCapacity == Len(queue_) <= MaxOutputQueueSize

\* a non-blocking push on a full queue returns false and leaves the queue
\* as it was: this much holds
C14_NonBlockingPushOnFull ==
  [][ (QueuePushBack /\ pc_sink' = "idle" /\ Len(queue_) >= MaxOutputQueueSize)
      => (queue_' = queue_ /\ hist'.inserted = hist.inserted) ]_vars

\* inside GstreamerPipeline, where drain mode is switched by stop() and
\* start() only, the bound holds
C14_CapacityInPipeline == Len(queue_) <= MaxOutputQueueSize


(* C15: initialize() returns normally only on a pipeline that was not       *)
(* initialized, and an initialized pipeline stays so: it succeeds at most   *)
(* once.  Called on an initialized pipeline it throws "already              *)
(* initialized" and leaves appsrc_, appsink_, pipeline_, the output queue   *)
(* and the user data queue as they were.                                    *)
C15_InitializeOnce ==
  /\ [][ (Initialize /\ last_ret' = "void") => (~pipeline_ /\ pipeline_') ]_vars
  /\ [][ pipeline_ => pipeline_' ]_vars
  /\ [][ (Initialize /\ pipeline_)
          => ( /\ last_ret' = "already_initialized"
               /\ appsrc_' = appsrc_ /\ appsink_' = appsink_
               /\ pipeline_' = pipeline_
               /\ queue_' = queue_
               /\ user_data_queue_' = user_data_queue_ ) ]_vars

\* initialize() has thrown on an initialized pipeline (made at the second
\* attempt) with entries pending; no pushInput has run since
C15_Witness ==
  /\ last_ret = "already_initialized"
  /\ pipeline_
  /\ appsrc_ = MaxPortSets /\ appsink_ = MaxPortSets
  /\ queue_ # <<>>
  /\ user_data_queue_ # <<>>


(* C16: when start() returns (called by the application or by the          *)
(* watchdog), the output queue and the user data queue are empty and drain  *)
(* mode is off.                                                             *)
C16_StartClearsQueues ==
  [][ StartBody => ( /\ queue_' = <<>>
                     /\ user_data_queue_' = <<>>
                     /\ ~discard_everything_' ) ]_vars

\* drain mode is off when start() returns: this much holds
C16_StartDisablesDrain ==
  [][ StartBody => ~discard_everything_' ]_vars

\* the output queue alone is not empty either when start() returns
C16_StartClearsOutputQueue ==
  [][ StartBody => queue_' = <<>> ]_vars



----------------------------------------------------------------------------
(* Frame buffer handles *)

\* the mapping state the two flags of a handle spell
MappingState(w) ==
  IF w.mapped_writable_
    THEN IF w.mapped_ THEN "mapped-writable" ELSE "none of the three"
    ELSE IF w.mapped_ THEN "mapped-readable" ELSE "unmapped"

\* the mapping state GStreamer holds for the buffer of a handle
NativeState(w, nat) ==
  IF w.ptr_ = 0 THEN "unmapped"
  ELSE IF nat[w.ptr_].mode = "write" THEN "mapped-writable"
  ELSE IF nat[w.ptr_].mode = "read" THEN "mapped-readable"
  ELSE "unmapped"

\* dropping the handle w changes nothing in GStreamer
Inert(w, nat) == Unref(w, nat)[2] = nat

\* C17: a move of a frame buffer handle, by construction or by assignment,
\* gives the destination the ownership flag and the exact mapping state
\* (unmapped, mapped-readable, mapped-writable) of the source and leaves the
\* source inert: dropping it neither unmaps nor frees the buffer.
C17_MoveTransfersState ==
  [][ \A d \in Handles, s \in Handles :
        (MoveConstruct(d, s) \/ MoveAssign(d, s))
          => /\ wrappers'[d].ptr_ = wrappers[s].ptr_
             /\ wrappers'[d].owns_buffer_ = wrappers[s].owns_buffer_
             /\ MappingState(wrappers'[d]) = MappingState(wrappers[s])
             /\ Inert(wrappers'[s], native') ]_vars

\* C17, what holds: move construction transfers all of it, and both moves
\* transfer the buffer and the ownership flag and leave the source inert
C17_MoveConstructTransfersState ==
  /\ [][ \A d \in Handles, s \in Handles :
           MoveConstruct(d, s)
             => /\ wrappers'[d].ptr_ = wrappers[s].ptr_
                /\ wrappers'[d].owns_buffer_ = wrappers[s].owns_buffer_
                /\ MappingState(wrappers'[d]) = MappingState(wrappers[s])
                /\ Inert(wrappers'[s], native') ]_vars
  /\ [][ \A d \in Handles, s \in Handles :
           MoveAssign(d, s)
             => /\ wrappers'[d].ptr_ = wrappers[s].ptr_
                /\ wrappers'[d].owns_buffer_ = wrappers[s].owns_buffer_
                /\ wrappers'[d].mapped_ = wrappers[s].mapped_
                /\ Inert(wrappers'[s], native') ]_vars

\* C18: whatever was done to it, a handle that holds a buffer is in exactly
\* one of the three mapping states: the writable flag is never set without
\* the mapped flag, and the flags say what GStreamer's mapping of the buffer
\* is; and no buffer is freed while it is mapped.
C18_OneMappingState ==
  /\ \A h \in Handles :
       (Running /\ wrappers[h].live /\ wrappers[h].ptr_ # 0)
         => /\ MappingState(wrappers[h]) # "none of the three"
            /\ MappingState(wrappers[h]) = NativeState(wrappers[h], native)
  /\ \A b \in Buffers : ~native[b].alive => native[b].mode = "none"

\* C18, what holds: release unmaps before it frees, and a handle that has
\* never been the destination of a move assignment has consistent flags
C18_ReleaseUnmapsFirst ==
  \A b \in Buffers : ~native[b].alive => native[b].mode = "none"


----------------------------------------------------------------------------
(* The mirrored state *)

\* stop() has returned (or start() was never called) and start() has not
\* been called since
Stopped == pipeline_ /\ pc_caller = "idle" /\ gst_state = "NULL"

\* C19: the mirrored state follows the state of the pipeline: while the
\* pipeline is stopped, after stop() has returned, the mirrored state is not
\* PLAYING and isPlaying() is false.
C19_NotPlayingWhenStopped ==
  Stopped => pipeline_state # "PLAYING"

\* C19, what holds: the mirrored state is PLAYING only if the pipeline has
\* been started (by the application or by the watchdog), and gstreamerLoop
\* writes only the state of a message
C19_PlayingOnlyAfterStart ==
  /\ [][ pipeline_state' # pipeline_state
           => (ThreadPoll /\ bus # <<>> /\ pipeline_state' = Head(bus)) ]_vars
  /\ [](pipeline_state = "PLAYING" => (hist.lifecycle > 0 \/ hist.restarted))


----------------------------------------------------------------------------
(* The pending side-queue *)

\* the step is a submit that pushData accepts
AcceptedSubmit == submitted' # submitted

\* the entry an accepted submit appends
NewEntry == [offset |-> frame_counter_, ud |-> submitted'[Len(submitted')].ud]

\* C20: the pending side-queue never holds more than the safety bound; a
\* submit accepted with the queue at the bound removes exactly the oldest
\* entry and then appends, any other accepted submit only appends; and under
\* DISCARD_INPUT_FRAMES the queue never holds more than the input bound.
C20_PendingQueueBounded ==
  /\ [](Len(user_data_queue_) <= MAX_USER_DATA_QUEUE_SIZE)
  /\ [](discard_mode_ = "DISCARD_INPUT_FRAMES"
          => Len(user_data_queue_) <= MaxInputQueueSize)
  /\ [][ AcceptedSubmit
           => user_data_queue_' =
                Append(IF Len(user_data_queue_) = MAX_USER_DATA_QUEUE_SIZE
                         THEN Tail(user_data_queue_)
                         ELSE user_data_queue_,
                       NewEntry) ]_vars

\* a submit was accepted with the queue at the safety bound: the oldest
\* entry (id 0) is gone, the three after it are pending
C20_Witness ==
  /\ discard_mode_ = "DISCARD_OUTPUT_FRAMES"
  /\ src_overflow_counter_ = 1
  /\ Len(user_data_queue_) = MAX_USER_DATA_QUEUE_SIZE
  /\ user_data_queue_[1].offset = 1
  /\ user_data_queue_[Len(user_data_queue_)].offset = MAX_USER_DATA_QUEUE_SIZE
  /\ last_ret = "true"
  /\ Running


\* C21: in every reachable state the correspondence ids (offsets) of the
\* entries of the pending side-queue increase strictly from front to back.
C21_PendingIdsIncrease ==
  \A i \in 1..Len(user_data_queue_) : \A j \in 1..Len(user_data_queue_) :
    i < j => user_data_queue_[i].offset < user_data_queue_[j].offset

\* the queue holds ids 1, 2, 3 after the eviction of id 0, and the second
\* start() of the application has stopped the pipeline and is about to start
\* it again
C21_Witness ==
  /\ [i \in 1..Len(user_data_queue_) |-> user_data_queue_[i].offset] = <<1, 2, 3>>
  /\ src_overflow_counter_ = 1
  /\ hist.lifecycle = MaxLifecycleCalls
  /\ pc_caller = "start_body"
  /\ gst_state = "NULL"
  /\ Running


----------------------------------------------------------------------------
(* A submit the ingest port rejects *)

\* the step is a pushInput that gets as far as gst_app_src_push_buffer (the
\* watchdog does not fire, pushData admits the buffer) while the pipeline is
\* stopped
SubmitToStoppedPort ==
  /\ Submit
  /\ pc_caller' = "idle"
  /\ AdmitInput(discard_mode_, user_data_queue_)
  /\ gst_state # "PLAYING"

\* C22: a submit that the ingest port rejects returns false, appends nothing
\* to the pending side-queue and evicts nothing from it, and leaves the id
\* counter alone; the accepted submits therefore get the ids 0, 1, 2, ...
\* without a gap, whatever was rejected in between.
C22_RejectedByPortHasNoEffect ==
  /\ [][ SubmitToStoppedPort
           => /\ last_ret' = "false"
              /\ user_data_queue_' = user_data_queue_
              /\ src_overflow_counter_' = src_overflow_counter_
              /\ frame_counter_' = frame_counter_
              /\ submitted' = submitted
              /\ inflight' = inflight ]_vars
  /\ [](\A i \in 1..Len(submitted) : submitted[i].id = i - 1)
  /\ [][ AcceptedSubmit
           => /\ submitted' = Append(submitted,
                                     [id |-> frame_counter_,
                                      ud |-> submitted'[Len(submitted')].ud])
              /\ frame_counter_' = frame_counter_ + 1 ]_vars

\* id 0 was accepted and is pending, the pipeline was stopped, and the
\* submit after that was rejected by the port; the next id is still 1
C22_Witness ==
  /\ pc_caller = "idle"
  /\ last_ret = "false"
  /\ gst_state = "NULL"
  /\ watchdog_counter_ < WATCHDOG_RESET_COUNT
  /\ frame_counter_ = 1
  /\ Len(submitted) = 1
  /\ Len(user_data_queue_) = 1
  /\ Running


----------------------------------------------------------------------------
(* Results without a correspondence id *)

\* the step is a callback for a sample without correspondence meta
ResultWithoutId == CallbackBegin /\ pc_sink' = "idle"

\* C23: a result without a retrievable correspondence id is discarded: the
\* fail counter goes up by one, or back to 0 when it reaches the report
\* rate, the pending side-queue and the output queue stay as they are and
\* nothing fails; and what is published afterwards is still a result paired
\* with the entry of its own id.
C23_ResultWithoutIdDiscarded ==
  /\ [][ ResultWithoutId
           => /\ correspondence_fail_counter_' =
                   IF correspondence_fail_counter_ + 1
                        >= CORRESPONDENCE_FAIL_REPORT_RATE
                     THEN 0
                     ELSE correspondence_fail_counter_ + 1
              /\ user_data_queue_' = user_data_queue_
              /\ queue_' = queue_
              /\ fault' = fault ]_vars
  /\ [](correspondence_fail_counter_ < CORRESPONDENCE_FAIL_REPORT_RATE)
  /\ [](\A i \in 1..Len(queue_) :
          /\ queue_[i].offset = queue_[i].id
          /\ queue_[i].id < Len(submitted)
          /\ queue_[i].ud = submitted[queue_[i].id + 1].ud)

\* the first five results came without an id, which took the fail counter to
\* the report rate and back to 0; the sixth was matched and published
C23_Witness ==
  /\ frame_counter_ = CORRESPONDENCE_FAIL_REPORT_RATE + 1
  /\ inflight = {}
  /\ pc_sink = "idle"
  /\ hist.inserted = <<CORRESPONDENCE_FAIL_REPORT_RATE>>
  /\ hist.dropped = {}
  /\ correspondence_fail_counter_ = 0
  /\ Len(queue_) = 1
  /\ user_data_queue_ = <<>>
  /\ Running


----------------------------------------------------------------------------
(* The matching step *)

\* every pending entry is older than the result the callback holds
AllPendingStale ==
  \A i \in 1..Len(user_data_queue_) : user_data_queue_[i].offset < cb.id

\* C24: whatever id the result carries, the matching step does not read or
\* remove the front of an empty pending side-queue: when every pending entry
\* is older than the result (the queue being empty included), the callback
\* ends without a fault and publishes nothing.
C24_ExhaustedQueueDropsResult ==
  [][ (CallbackMatch /\ AllPendingStale)
        => /\ fault' = "none"
           /\ pc_sink' = "idle"
           /\ queue_' = queue_ ]_vars

\* C24, what holds: the test before the loop covers the empty queue, and a
\* result whose id was accepted by a submit never exhausts the queue
C24_EmptyQueueDropsResult ==
  /\ [][ (CallbackMatch /\ user_data_queue_ = <<>>)
           => /\ fault' = "none"
              /\ pc_sink' = "idle"
              /\ queue_' = queue_
              /\ user_data_queue_' = <<>> ]_vars
  /\ [][ (CallbackMatch /\ user_data_queue_ # <<>> /\ cb.id < frame_counter_)
           => fault' # "front_of_empty_user_data_queue" ]_vars


----------------------------------------------------------------------------
(* Slow egress *)

\* C25: as long as the pipeline has returned every buffer it was given, each
\* once, with its id and in the order of the ids, the ordering error is not
\* raised, evictions at the safety bound included.
C25_NoOrderingErrorInOrder ==
  hist.in_order => fault # "ordering_error"

\* C25, what holds: the same while the pipeline holds fewer buffers than
\* the pending side-queue has room for
C25_NoOrderingErrorWithinBound ==
  (hist.in_order /\ IngestCap < MAX_USER_DATA_QUEUE_SIZE)
    => fault # "ordering_error"


----------------------------------------------------------------------------
(* user_data_queue_mutex_ *)

\* pushData holds user_data_queue_mutex_ inside gst_app_src_push_buffer and
\* the appsrc has no room
SubmitWaitsForPort ==
  pc_caller = "ingest_blocked" /\ IngestBlocks(gst_state, inflight)

\* the callback has pulled a sample and is at the lock_guard of
\* user_data_queue_mutex_, which pushData holds
CallbackWaitsForMutex ==
  pc_sink = "cb_lock" /\ pc_caller = "ingest_blocked"

\* C26: the submit thread and the streaming thread never wait for each
\* other: in no reachable state does pushData hold user_data_queue_mutex_
\* waiting for room in the appsrc while the callback, which the pipeline
\* must finish before it takes another buffer, waits for that mutex.
C26_NoMutexDeadlock ==
  ~(SubmitWaitsForPort /\ CallbackWaitsForMutex)

\* C26, what holds: the callback has released user_data_queue_mutex_ when it
\* waits on the full output queue, so that a submit the appsrc has room for
\* goes through meanwhile
C26_MutexFreeWhileOutputFull ==
  [][ (InBlockingPush /\ QueueFull(queue_) /\ Submit
         /\ AdmitInput(discard_mode_, user_data_queue_)
         /\ IngestAccepts(gst_state)
         /\ ~IngestBlocks(gst_state, inflight)
         /\ pc_caller' = "idle")
        => (last_ret' = "true" /\ Len(submitted') = Len(submitted) + 1) ]_vars

\* C26, what the state is: once both threads wait, they wait for ever
C26_WaitIsForEver ==
  [][ (SubmitWaitsForPort /\ CallbackWaitsForMutex)
        => (SubmitWaitsForPort /\ CallbackWaitsForMutex)' ]_vars

============================================================================
